---- MODULE Spec2Model ----
(***************************************************************************)
(* Order-book aggregation service (Binance + Bitstamp -> gRPC stream).     *)
(*                                                                         *)
(* Part 1: the pure functions of orderbook_helper.rs (the f64 values they  *)
(* compare, sort_and_trim_levels, process_message, merge_orderbooks).      *)
(* Part 2: the tasks, mutexes and channel of server.rs.                    *)
(*                                                                         *)
(* Prices and amounts are f64 in the source.  A finite value is kept here  *)
(* as an exact count of tenths (10.2 is Fin(102)); NaN and the infinities  *)
(* are separate kinds because the comparator treats them differently.      *)
(***************************************************************************)
EXTENDS Integers, Sequences, FiniteSets, TLC

\* ------------------------------------------------------------------ bounds
\* Largest depth the service is started with (depth is a u32 argument).
MaxDepth == 2
\* Most entries (bids plus asks) of a frame handed to process_message alone.
MaxEntries == 3
\* Most entries (bids plus asks) of each of the two frames whose books are merged.
MaxMergeEntries == 2
\* Reads the two upstream sockets answer, in all, in a run of the service
\* (each with a frame, or with the error that ends the connection).
MaxFrames == 3
\* Subscribers that drop their stream in a run of the service.
MaxDrops == 1
\* Snapshots one subscriber takes from its stream in a run of the service.
MaxReceived == 3
\* Reads the upstream sockets answer, in all, once a backlog has built up.
MaxBacklogFrames == 2
\* Reads the upstream sockets answer, in all, in a run at any depth.
MaxDepthsFrames == 2
\* Frames the upstreams send after a start that connects first.
MaxConnectFrames == 2
\* Levels in a slice handed to sort_and_trim_levels on its own.
MaxSortLevels == 3

\* ------------------------------------------------------------------ f64
Fin(n) == [k |-> "fin", v |-> n]
NaN == [k |-> "nan", v |-> 0]
PosInf == [k |-> "inf", v |-> 1]

IsNaN(a) == a.k = "nan"

\* IEEE less-than on two values that are not NaN.
FLess(a, b) ==
    CASE a.k = "fin" /\ b.k = "fin" -> a.v < b.v
      [] a.k = "inf" /\ b.k = "inf" -> a.v < b.v
      [] a.k = "inf" -> a.v < 0
      [] OTHER -> b.v > 0

\* a == b on f64: false as soon as one side is NaN.
FEq(a, b) == ~IsNaN(a) /\ ~IsNaN(b) /\ a.k = b.k /\ a.v = b.v

\* a.partial_cmp(&b): "None" when one side is NaN.
PartialCmp(a, b) ==
    IF IsNaN(a) \/ IsNaN(b) THEN "None"
    ELSE IF FEq(a, b) THEN "Equal"
    ELSE IF FLess(a, b) THEN "Less"
    ELSE "Greater"

\* a - b on f64 (inf - inf and anything with NaN give NaN).
FSub(a, b) ==
    CASE IsNaN(a) \/ IsNaN(b) -> NaN
      [] a.k = "fin" /\ b.k = "fin" -> Fin(a.v - b.v)
      [] a.k = "inf" /\ b.k = "inf" -> IF a.v = b.v THEN NaN ELSE a
      [] a.k = "inf" -> a
      [] OTHER -> [k |-> "inf", v |-> 0 - b.v]

\* s.parse::<f64>().ok(): the decimal strings used on the wire, the spellings
\* of NaN and infinity that Rust's parser accepts, and text it rejects.
NoF64 == [k |-> "bad", v |-> 0]
ParseF64(s) ==
    CASE s = "9.5" -> Fin(95)
      [] s = "10.0" -> Fin(100)
      [] s = "10.2" -> Fin(102)
      [] s = "1.0" -> Fin(10)
      [] s = "2.0" -> Fin(20)
      [] s = "0" -> Fin(0)
      [] s = "11.0" -> Fin(110)
      [] s = "11.5" -> Fin(115)
      [] s = "0.8" -> Fin(8)
      [] s = "0.7" -> Fin(7)
      [] s = "10" -> Fin(100)
      [] s = "11" -> Fin(110)
      [] s = "1" -> Fin(10)
      [] s = "2" -> Fin(20)
      [] s = "NaN" -> NaN
      [] s = "inf" -> PosInf
      [] OTHER -> NoF64

\* ------------------------------------------------------------------ model
\* PriceAmountLevel and OrderBook.
PriceAmountLevel(e, p, a) == [exchange |-> e, price |-> p, amount |-> a]
OrderBook(b, a, s) == [bids |-> b, asks |-> a, spread |-> s]
\* OrderBook::new()
NewOrderBook == OrderBook(<<>>, <<>>, Fin(0))

Exchanges == {"binance", "bitstamp"}
Other(x) == IF x = "binance" THEN "bitstamp" ELSE "binance"

\* ------------------------------------------------------------------ sort
\* The closure with its two price branches made the same: prices ascending
\* whatever the flag (a variant the ordering claims must tell apart).
CompareLevelsAscendingOnly(a, b, ascending) ==
    LET c == IF FEq(a.price, b.price) THEN PartialCmp(b.amount, a.amount)
             ELSE PartialCmp(a.price, b.price)
    IN IF c = "None" THEN "Panic" ELSE c

\* The closure handed to sort_by; "Panic" is the unwrap of a None.
CompareLevels(a, b, ascending) ==
    LET c == IF FEq(a.price, b.price) THEN PartialCmp(b.amount, a.amount)
             ELSE IF ascending THEN PartialCmp(a.price, b.price)
             ELSE PartialCmp(b.price, a.price)
    IN IF c = "None" THEN "Panic" ELSE c

Panicked == [ok |-> FALSE, seq |-> <<>>]
Sorted(s) == [ok |-> TRUE, seq |-> s]

\* One insertion of slice::sort_by (a stable insertion sort on short slices):
\* x moves left past every element it is Less than.
RECURSIVE InsertTail(_, _, _)
InsertTail(sorted, x, ascending) ==
    IF Len(sorted) = 0 THEN Sorted(<<x>>)
    ELSE LET last == sorted[Len(sorted)]
             c == CompareLevels(x, last, ascending)
         IN IF c = "Panic" THEN Panicked
            ELSE IF c = "Less"
            THEN LET r == InsertTail(SubSeq(sorted, 1, Len(sorted) - 1), x, ascending)
                 IN IF r.ok THEN Sorted(Append(r.seq, last)) ELSE Panicked
            ELSE Sorted(Append(sorted, x))

RECURSIVE SortBy(_, _)
SortBy(levels, ascending) ==
    IF Len(levels) = 0 THEN Sorted(<<>>)
    ELSE LET r == SortBy(SubSeq(levels, 1, Len(levels) - 1), ascending)
         IN IF r.ok THEN InsertTail(r.seq, levels[Len(levels)], ascending)
            ELSE Panicked

\* The sort alone, without the truncation to depth (a variant the length
\* invariant must tell apart).
sort_and_trim_levels_sort_only(levels, d, ascending) == SortBy(levels, ascending)

\* The truncation alone, without the sort_by call (a variant the ordering
\* invariant must tell apart).
sort_and_trim_levels_trim_only(levels, d, ascending) ==
    IF d <= Len(levels) THEN Sorted(SubSeq(levels, 1, d)) ELSE Sorted(levels)

\* The sort applied to the slice read from its end (a variant the claim on
\* the order of full ties must tell apart).
sort_and_trim_levels_from_the_end(levels, d, ascending) ==
    LET r == SortBy([i \in 1..Len(levels) |-> levels[Len(levels) + 1 - i]], ascending)
    IN IF ~r.ok THEN Panicked
       ELSE IF d <= Len(r.seq) THEN Sorted(SubSeq(r.seq, 1, d))
       ELSE r

sort_and_trim_levels(levels, d, ascending) ==
    LET r == SortBy(levels, ascending)
    IN IF ~r.ok THEN Panicked
       ELSE IF d <= Len(r.seq) THEN Sorted(SubSeq(r.seq, 1, d))
       ELSE r

\* ------------------------------------------------------------------ frames
\* A text frame as serde_json sees it: whether it is a JSON document, whether
\* it has a top-level "data" member, and the "bids" / "asks" members of the
\* top level and of "data".  An array is [present, items]; an item is the
\* sequence of JSON values of one entry; a JSON value is a string or not.
JStr(t) == [str |-> TRUE, text |-> t]
JNum(t) == [str |-> FALSE, text |-> t]
Entry(p, a) == <<JStr(p), JStr(a)>>
Arr(items) == [present |-> TRUE, items |-> items]
NoArr == [present |-> FALSE, items |-> <<>>]
Obj(b, a) == [bids |-> b, asks |-> a]
NotJson == [json |-> FALSE, hasData |-> FALSE, top |-> Obj(NoArr, NoArr), data |-> Obj(NoArr, NoArr)]
TopFrame(b, a) == [json |-> TRUE, hasData |-> FALSE, top |-> Obj(b, a), data |-> Obj(NoArr, NoArr)]
DataFrame(b, a) == [json |-> TRUE, hasData |-> TRUE, top |-> Obj(NoArr, NoArr), data |-> Obj(b, a)]

\* ------------------------------------------------------------------ parser
\* v.as_str().and_then(|s| s.parse().ok()) on element i of an entry.
EntryNumber(entry, i) ==
    IF i <= Len(entry) /\ entry[i].str THEN ParseF64(entry[i].text) ELSE NoF64

EntryParses(entry) == EntryNumber(entry, 1) # NoF64 /\ EntryNumber(entry, 2) # NoF64

\* The filter_map tagging every level "binance" whatever the exchange
\* argument (a variant the claim on the tags must tell apart).
ParseLevelsTaggedBinance(items, exchange) ==
    LET kept == SelectSeq(items, EntryParses)
    IN [i \in 1..Len(kept) |->
          PriceAmountLevel("binance", EntryNumber(kept[i], 1), EntryNumber(kept[i], 2))]

\* The filter_map over one array: the entries that parse, in array order.
ParseLevels(items, exchange) ==
    LET kept == SelectSeq(items, EntryParses)
    IN [i \in 1..Len(kept) |->
          PriceAmountLevel(exchange, EntryNumber(kept[i], 1), EntryNumber(kept[i], 2))]

None == [tag |-> "None"]
Some(book) == [tag |-> "Some", book |-> book]
Panic == [tag |-> "Panic"]

\* The parser taking a missing array for an empty one (a variant the claim
\* on rejected frames must tell apart).
process_message_missing_as_empty(frame, exchange, d) ==
    IF ~frame.json THEN None
    ELSE LET data == IF frame.hasData THEN frame.data ELSE frame.top
             bids == ParseLevels(data.bids.items, exchange)
             asks == ParseLevels(data.asks.items, exchange)
             spread == IF Len(bids) > 0 /\ Len(asks) > 0
                       THEN FSub(bids[1].price, asks[1].price)
                       ELSE Fin(0)
             selected_bids == sort_and_trim_levels(bids, d, FALSE)
             selected_asks == sort_and_trim_levels(asks, d, TRUE)
         IN IF ~selected_bids.ok \/ ~selected_asks.ok THEN Panic
            ELSE Some(OrderBook(selected_bids.seq, selected_asks.seq, spread))

process_message(frame, exchange, d) ==
    IF ~frame.json THEN None
    ELSE LET data == IF frame.hasData THEN frame.data ELSE frame.top
         IN IF ~data.bids.present THEN None
            ELSE IF ~data.asks.present THEN None
            ELSE LET bids == ParseLevels(data.bids.items, exchange)
                     asks == ParseLevels(data.asks.items, exchange)
                     spread == IF Len(bids) > 0 /\ Len(asks) > 0
                               THEN FSub(bids[1].price, asks[1].price)
                               ELSE Fin(0)
                     selected_bids == sort_and_trim_levels(bids, d, FALSE)
                     selected_asks == sort_and_trim_levels(asks, d, TRUE)
                 IN IF ~selected_bids.ok \/ ~selected_asks.ok THEN Panic
                    ELSE Some(OrderBook(selected_bids.seq, selected_asks.seq, spread))

\* ------------------------------------------------------------------ merge
\* The merge that leaves out the levels of the second book that the first
\* book holds too (a variant the claims on duplicates must tell apart).
merge_orderbooks_deduplicated(binance_orderbook, bitstamp_orderbook, d) ==
    LET fresh(levels, held) ==
            SelectSeq(levels, LAMBDA l : \A i \in DOMAIN held : held[i] # l)
        sorted_bids == sort_and_trim_levels(
            binance_orderbook.bids \o fresh(bitstamp_orderbook.bids, binance_orderbook.bids),
            d, FALSE)
        sorted_asks == sort_and_trim_levels(
            binance_orderbook.asks \o fresh(bitstamp_orderbook.asks, binance_orderbook.asks),
            d, TRUE)
    IN IF ~sorted_bids.ok \/ ~sorted_asks.ok THEN Panic
       ELSE Some(OrderBook(sorted_bids.seq, sorted_asks.seq,
                           IF Len(sorted_bids.seq) > 0 /\ Len(sorted_asks.seq) > 0
                           THEN FSub(sorted_bids.seq[1].price, sorted_asks.seq[1].price)
                           ELSE Fin(0)))

\* The merge with the second book's levels put before the first book's (a
\* variant the claim on full ties must tell apart).
merge_orderbooks_second_first(binance_orderbook, bitstamp_orderbook, d) ==
    LET sorted_bids == sort_and_trim_levels(
                           bitstamp_orderbook.bids \o binance_orderbook.bids, d, FALSE)
        sorted_asks == sort_and_trim_levels(
                           bitstamp_orderbook.asks \o binance_orderbook.asks, d, TRUE)
    IN IF ~sorted_bids.ok \/ ~sorted_asks.ok THEN Panic
       ELSE Some(OrderBook(sorted_bids.seq, sorted_asks.seq,
                           IF Len(sorted_bids.seq) > 0 /\ Len(sorted_asks.seq) > 0
                           THEN FSub(sorted_bids.seq[1].price, sorted_asks.seq[1].price)
                           ELSE Fin(0)))

\* The merge of the first book alone (a variant the claims on what is merged
\* must tell apart).
merge_orderbooks_first_only(binance_orderbook, bitstamp_orderbook, d) ==
    LET sorted_bids == sort_and_trim_levels(binance_orderbook.bids, d, FALSE)
        sorted_asks == sort_and_trim_levels(binance_orderbook.asks, d, TRUE)
    IN IF ~sorted_bids.ok \/ ~sorted_asks.ok THEN Panic
       ELSE Some(OrderBook(sorted_bids.seq, sorted_asks.seq,
                           IF Len(sorted_bids.seq) > 0 /\ Len(sorted_asks.seq) > 0
                           THEN FSub(sorted_bids.seq[1].price, sorted_asks.seq[1].price)
                           ELSE Fin(0)))

\* The merge with the operands of the subtraction exchanged: ask minus bid
\* (a variant the spread claims must tell apart).
merge_orderbooks_ask_minus_bid(binance_orderbook, bitstamp_orderbook, d) ==
    LET sorted_bids == sort_and_trim_levels(
                           binance_orderbook.bids \o bitstamp_orderbook.bids, d, FALSE)
        sorted_asks == sort_and_trim_levels(
                           binance_orderbook.asks \o bitstamp_orderbook.asks, d, TRUE)
    IN IF ~sorted_bids.ok \/ ~sorted_asks.ok THEN Panic
       ELSE Some(OrderBook(sorted_bids.seq, sorted_asks.seq,
                           IF Len(sorted_bids.seq) > 0 /\ Len(sorted_asks.seq) > 0
                           THEN FSub(sorted_asks.seq[1].price, sorted_bids.seq[1].price)
                           ELSE Fin(0)))

merge_orderbooks(binance_orderbook, bitstamp_orderbook, d) ==
    LET merged_bids == binance_orderbook.bids \o bitstamp_orderbook.bids
        merged_asks == binance_orderbook.asks \o bitstamp_orderbook.asks
        sorted_bids == sort_and_trim_levels(merged_bids, d, FALSE)
        sorted_asks == sort_and_trim_levels(merged_asks, d, TRUE)
    IN IF ~sorted_bids.ok \/ ~sorted_asks.ok THEN Panic
       ELSE LET spread == IF Len(sorted_bids.seq) > 0 /\ Len(sorted_asks.seq) > 0
                          THEN FSub(sorted_bids.seq[1].price, sorted_asks.seq[1].price)
                          ELSE Fin(0)
            IN Some(OrderBook(sorted_bids.seq, sorted_asks.seq, spread))

\* ------------------------------------------------------------------ inputs
SeqsUpTo(S, n) == UNION {[1..k -> S] : k \in 0..n}

\* Entries an exchange can put in an array: three prices, a price tie with a
\* different amount, a zero amount, NaN as price and as amount, an entry
\* without its amount.
EntryPool ==
    { Entry("10.0", "1.0"), Entry("10.0", "2.0"), Entry("9.5", "2.0"),
      Entry("10.2", "1.0"), Entry("10.2", "0"), Entry("NaN", "1.0"),
      Entry("10.0", "NaN"), <<JStr("9.5")>> }

\* The frame of tests::test_process_message.
TestFrame ==
    DataFrame(Arr(<<Entry("10.0", "1.0"), Entry("9.5", "2.0")>>),
              Arr(<<Entry("11.0", "0.8"), Entry("11.5", "0.7")>>))

\* Frames handed to process_message on its own: both layouts with every pair
\* of arrays of at most MaxEntries entries in all, text that is not JSON,
\* a number where the price string belongs, and documents lacking an array.
ParserFrames ==
    LET sides == SeqsUpTo(EntryPool, MaxEntries)
        pairs == {p \in sides \X sides : Len(p[1]) + Len(p[2]) <= MaxEntries}
    IN {TopFrame(Arr(p[1]), Arr(p[2])) : p \in pairs}
       \cup {DataFrame(Arr(p[1]), Arr(p[2])) : p \in pairs}
       \cup { NotJson, TestFrame,
              TopFrame(NoArr, Arr(<<Entry("10.0", "1.0")>>)),
              TopFrame(Arr(<<Entry("10.0", "1.0")>>), NoArr),
              DataFrame(NoArr, Arr(<<>>)),
              DataFrame(Arr(<<>>), NoArr),
              TopFrame(Arr(<<<<JNum("10.0"), JStr("1.0")>>>>), Arr(<<Entry("inf", "1.0")>>)) }

\* Entries of the frames whose books are merged.
MergePool ==
    { Entry("10.0", "1.0"), Entry("10.0", "2.0"), Entry("9.5", "2.0"),
      Entry("10.2", "1.0"), Entry("10.0", "NaN") }

MergeFrames ==
    LET sides == SeqsUpTo(MergePool, MaxMergeEntries)
        pairs == {p \in sides \X sides : Len(p[1]) + Len(p[2]) <= MaxMergeEntries}
    IN {TopFrame(Arr(p[1]), Arr(p[2])) : p \in pairs}

\* ------------------------------------------------------------------ wire
\* What each upstream sends while the service runs.  Binance: two book
\* updates (one with its bids out of order), an update carrying NaN, text
\* that is not JSON and documents lacking one of the arrays.  Bitstamp: a
\* book update, a document without the arrays (an event that is no book
\* update) and one with the arrays beside "data" instead of inside it.
BinanceFrames ==
    { TopFrame(Arr(<<Entry("10.0", "1.0"), Entry("10.2", "1.0")>>), Arr(<<Entry("10.2", "2.0")>>)),
      TopFrame(Arr(<<Entry("9.5", "2.0")>>), Arr(<<Entry("10.0", "1.0")>>)),
      TopFrame(Arr(<<Entry("NaN", "1.0")>>), Arr(<<>>)),
      NotJson,
      TopFrame(Arr(<<Entry("10.0", "1.0")>>), NoArr),
      TopFrame(NoArr, Arr(<<Entry("10.0", "1.0")>>)) }

BitstampFrames ==
    { DataFrame(Arr(<<Entry("9.5", "2.0")>>), Arr(<<Entry("10.0", "1.0"), Entry("10.0", "2.0")>>)),
      DataFrame(NoArr, NoArr),
      [json |-> TRUE, hasData |-> TRUE,
       top |-> Obj(Arr(<<Entry("9.5", "2.0")>>), Arr(<<Entry("10.0", "1.0")>>)),
       data |-> Obj(NoArr, NoArr)] }

WireFrames(x) == IF x = "binance" THEN BinanceFrames ELSE BitstampFrames

\* The BookSummary calls that can be made, named in the order they arrive.
Subs == {"s1", "s2"}
Earlier(s) == IF s = "s2" THEN {"s1"} ELSE {}

\* channel(100)
ChannelCapacity == 100

\* ------------------------------------------------------------------ state
VARIABLES
    depth,            \* the depth argument of the service
    call,             \* a call of a pure function made on its own
    ret,              \* what that call returned
    sock,             \* per exchange: the upstream socket: "open" or "failed" once connected (before: see Dial)
    budget,           \* reads the upstreams will still answer
    drops,            \* streams the subscribers may still drop
    rx,               \* per subscriber: the receiver half, "none", "open", "dropped" or "ended"
    queue,            \* per subscriber: the channel's buffer
    pc,               \* per subscriber and exchange: where the consumer task is
    slot,             \* per subscriber and exchange: the Mutex<OrderBook> content
    slotLock,         \* per subscriber and exchange: the task holding that mutex
    poisoned,         \* per subscriber and exchange: that mutex is poisoned
    senderPoisoned,   \* per subscriber: the Mutex<Sender> is poisoned
    new_orderbook,    \* per task: the book process_message returned
    merged_orderbook, \* per task: the book merge_orderbooks returned
    delivered,        \* per subscriber: the snapshots its stream has yielded (history)
    last,             \* per exchange: the book stored last in a slot of that exchange, by any task (history)
    version           \* per subscriber: how many books each slot has been given, and the counts
                      \* behind the merge a task holds and behind the snapshot queued last (history)

harness == <<call, ret>>
service == <<sock, budget, drops, rx, queue, pc, slot, slotLock, poisoned, senderPoisoned,
             new_orderbook, merged_orderbook, delivered, last, version>>
vars == <<depth, harness, service>>

NoCall == [fn |-> "none"]
NotRun == [tag |-> "NotRun"]

PerTask(v) == [s \in Subs |-> [x \in Exchanges |-> v]]

\* Nothing stored, merged or queued yet.
NoVersion == [x \in Exchanges |-> 0]
NoVersions ==
    [slot |-> [s \in Subs |-> NoVersion],
     merged |-> PerTask(NoVersion),
     sent |-> [s \in Subs |-> NoVersion]]

\* The closure of a task has returned or unwound: its clones of the slots
\* and of the sender are dropped.
PanicStates == {"panic_sort", "panic_merge", "panic_poison", "panic_full", "panic_closed"}
Ended(s, x) == pc[s][x] \in PanicStates \cup {"done"}


\* The service as main constructs it, before any BookSummary call.
ServiceInit ==
    /\ sock = [x \in Exchanges |-> "open"]
    /\ budget = MaxFrames
    /\ drops = MaxDrops
    /\ rx = [s \in Subs |-> "none"]
    /\ queue = [s \in Subs |-> <<>>]
    /\ pc = PerTask("idle")
    /\ slot = PerTask(NewOrderBook)
    /\ slotLock = PerTask("free")
    /\ poisoned = PerTask(FALSE)
    /\ senderPoisoned = [s \in Subs |-> FALSE]
    /\ new_orderbook = PerTask(NewOrderBook)
    /\ merged_orderbook = PerTask(NewOrderBook)
    /\ delivered = [s \in Subs |-> <<>>]
    /\ last = [x \in Exchanges |-> NewOrderBook]
    /\ version = NoVersions

Init ==
    /\ depth = MaxDepth
    /\ call = NoCall
    /\ ret = NotRun
    /\ ServiceInit

\* ------------------------------------------------------------------ service
\* orderbook_to_summary: the proto Summary built field by field.
SummaryLevel(level) ==
    [exchange |-> level.exchange, price |-> level.price, amount |-> level.amount]

\* The Summary whose spread is left at its default (a variant the claim on
\* the copy must tell apart).
orderbook_to_summary_default_spread(orderbook) ==
    [spread |-> Fin(0),
     bids |-> [i \in 1..Len(orderbook.bids) |-> SummaryLevel(orderbook.bids[i])],
     asks |-> [i \in 1..Len(orderbook.asks) |-> SummaryLevel(orderbook.asks[i])]]

orderbook_to_summary(orderbook) ==
    [spread |-> orderbook.spread,
     bids |-> [i \in 1..Len(orderbook.bids) |-> SummaryLevel(orderbook.bids[i])],
     asks |-> [i \in 1..Len(orderbook.asks) |-> SummaryLevel(orderbook.asks[i])]]

\* Sender::try_send on the channel of subscriber s.
TrySendResult(s) ==
    IF rx[s] = "dropped" THEN "Closed"
    ELSE IF Len(queue[s]) >= ChannelCapacity THEN "Full"
    ELSE "Ok"

\* The call whose tasks start on the books stored last by any subscription
\* instead of on empty slots of their own (a variant the claim on the slots
\* of a new subscription must tell apart).
BookSummarySharingSlots(s) ==
    /\ \A x \in Exchanges : sock[x] \in {"open", "failed"}
    /\ rx[s] = "none"
    /\ \A t \in Earlier(s) : rx[t] # "none"
    /\ rx' = [rx EXCEPT ![s] = "open"]
    /\ pc' = [pc EXCEPT ![s] = [x \in Exchanges |-> "read"]]
    /\ slot' = [slot EXCEPT ![s] = last]
    /\ UNCHANGED <<depth, harness, sock, budget, drops, queue, slotLock, poisoned,
                   senderPoisoned, new_orderbook, merged_orderbook, delivered, last, version>>

\* book_summary, served once main has both sockets: a new channel, and the
\* spawned process_socket_messages starts one blocking task per upstream
\* socket with fresh, empty slots.
BookSummary(s) ==
    /\ \A x \in Exchanges : sock[x] \in {"open", "failed"}
    /\ rx[s] = "none"
    /\ \A t \in Earlier(s) : rx[t] # "none"
    /\ rx' = [rx EXCEPT ![s] = "open"]
    /\ pc' = [pc EXCEPT ![s] = [x \in Exchanges |-> "read"]]
    /\ UNCHANGED <<depth, harness, sock, budget, drops, queue, slot, slotLock, poisoned,
                   senderPoisoned, new_orderbook, merged_orderbook, delivered, last, version>>

\* The loop head: lock the shared socket, read_message, unlock, then
\* process_message on the text.  A frame goes to whichever task reads it.
Read(s, x) ==
    /\ pc[s][x] = "read"
    /\ sock[x] = "open"
    /\ budget > 0
    /\ \E f \in WireFrames(x) :
         LET r == process_message(f, x, depth)
         IN /\ pc' = [pc EXCEPT ![s][x] =
                        IF r.tag = "Some" THEN "lock_own"
                        ELSE IF r.tag = "Panic" THEN "panic_sort"
                        ELSE "read"]
            /\ new_orderbook' = IF r.tag = "Some"
                                THEN [new_orderbook EXCEPT ![s][x] = r.book]
                                ELSE new_orderbook
    /\ budget' = budget - 1
    /\ UNCHANGED <<depth, harness, sock, drops, rx, queue, slot, slotLock, poisoned,
                   senderPoisoned, merged_orderbook, delivered, last, version>>

\* The end of a task on a read error that also empties the task's slot (a
\* variant the claim on the last-known book must tell apart).
ReadErrorResettingSlot(s, x) ==
    /\ pc[s][x] = "read"
    /\ sock[x] = "open" => budget > 0
    /\ budget' = IF sock[x] = "open" THEN budget - 1 ELSE budget
    /\ sock' \in {sock, [sock EXCEPT ![x] = "failed"]}
    /\ pc' = [pc EXCEPT ![s][x] = "done"]
    /\ slot' = [slot EXCEPT ![s][x] = NewOrderBook]
    /\ UNCHANGED <<depth, harness, drops, rx, queue, slotLock, poisoned,
                   senderPoisoned, new_orderbook, merged_orderbook, delivered, last, version>>

\* read_message returns Err: the while-let ends and the task returns.  The
\* connection broke or had broken before (every later read fails as well),
\* or the error concerns one message only (a frame over the size limit,
\* text that is not UTF-8) and the socket, which nothing closes, goes on
\* delivering frames to whoever reads it next.
ReadError(s, x) ==
    /\ pc[s][x] = "read"
    /\ sock[x] = "open" => budget > 0
    /\ budget' = IF sock[x] = "open" THEN budget - 1 ELSE budget
    /\ sock' \in {sock, [sock EXCEPT ![x] = "failed"]}
    /\ pc' = [pc EXCEPT ![s][x] = "done"]
    /\ UNCHANGED <<depth, harness, drops, rx, queue, slot, slotLock, poisoned,
                   senderPoisoned, new_orderbook, merged_orderbook, delivered, last, version>>

\* The store that unlocks the slot as soon as the book is written instead of
\* holding it until the snapshot is sent (a variant the claim on the order
\* of the snapshots must tell apart).
LockOwnReleasingAtOnce(s, x) ==
    /\ pc[s][x] = "lock_own"
    /\ slotLock[s][x] = "free"
    /\ IF poisoned[s][x]
       THEN /\ pc' = [pc EXCEPT ![s][x] = "panic_poison"]
            /\ new_orderbook' = [new_orderbook EXCEPT ![s][x] = NewOrderBook]
            /\ UNCHANGED <<slot, last, version>>
       ELSE /\ slot' = [slot EXCEPT ![s][x] = new_orderbook[s][x]]
            /\ last' = [last EXCEPT ![x] = new_orderbook[s][x]]
            /\ version' = [version EXCEPT !.slot[s][x] = @ + 1]
            /\ pc' = [pc EXCEPT ![s][x] = "lock_other"]
            /\ UNCHANGED new_orderbook
    /\ UNCHANGED <<depth, harness, sock, budget, drops, rx, queue, slotLock, poisoned,
                   senderPoisoned, merged_orderbook, delivered>>

\* The store that writes the new book to both slots of the subscription (a
\* variant the claim on the writer of a slot must tell apart).
LockOwnStoringInBoth(s, x) ==
    /\ pc[s][x] = "lock_own"
    /\ slotLock[s][x] = "free"
    /\ IF poisoned[s][x]
       THEN /\ pc' = [pc EXCEPT ![s][x] = "panic_poison"]
            /\ new_orderbook' = [new_orderbook EXCEPT ![s][x] = NewOrderBook]
            /\ UNCHANGED <<slot, slotLock, last, version>>
       ELSE /\ slotLock' = [slotLock EXCEPT ![s][x] = x]
            /\ slot' = [slot EXCEPT ![s] = [y \in Exchanges |-> new_orderbook[s][x]]]
            /\ last' = [last EXCEPT ![x] = new_orderbook[s][x]]
            /\ version' = [version EXCEPT !.slot[s][x] = @ + 1]
            /\ pc' = [pc EXCEPT ![s][x] = "lock_other"]
            /\ UNCHANGED new_orderbook
    /\ UNCHANGED <<depth, harness, sock, budget, drops, rx, queue, poisoned, senderPoisoned,
                   merged_orderbook, delivered>>

\* The task locks the slot of its own exchange (unwrap panics if the mutex
\* is poisoned) and stores the new book; the guard lives to the end of the
\* if-let body.
LockOwn(s, x) ==
    /\ pc[s][x] = "lock_own"
    /\ slotLock[s][x] = "free"
    /\ IF poisoned[s][x]
       THEN /\ pc' = [pc EXCEPT ![s][x] = "panic_poison"]
            /\ new_orderbook' = [new_orderbook EXCEPT ![s][x] = NewOrderBook]
            /\ UNCHANGED <<slot, slotLock, last, version>>
       ELSE /\ slotLock' = [slotLock EXCEPT ![s][x] = x]
            /\ slot' = [slot EXCEPT ![s][x] = new_orderbook[s][x]]
            /\ last' = [last EXCEPT ![x] = new_orderbook[s][x]]
            /\ version' = [version EXCEPT !.slot[s][x] = @ + 1]
            /\ pc' = [pc EXCEPT ![s][x] = "lock_other"]
            /\ UNCHANGED new_orderbook
    /\ UNCHANGED <<depth, harness, sock, budget, drops, rx, queue, poisoned, senderPoisoned,
                   merged_orderbook, delivered>>

\* Still holding its own slot, the task locks the other exchange's slot for
\* the duration of the merge_orderbooks call (Binance book first in both
\* tasks).  A panic here unwinds with the guards held and poisons them.
LockOther(s, x) ==
    /\ pc[s][x] = "lock_other"
    /\ slotLock[s][Other(x)] = "free"
    /\ IF poisoned[s][Other(x)]
       THEN /\ pc' = [pc EXCEPT ![s][x] = "panic_poison"]
            /\ poisoned' = [poisoned EXCEPT ![s][x] = TRUE]
            /\ UNCHANGED merged_orderbook
       ELSE LET m == IF x = "binance"
                     THEN merge_orderbooks(new_orderbook[s][x], slot[s]["bitstamp"], depth)
                     ELSE merge_orderbooks(slot[s]["binance"], new_orderbook[s][x], depth)
            IN IF m.tag = "Panic"
               THEN /\ pc' = [pc EXCEPT ![s][x] = "panic_merge"]
                    /\ poisoned' = [poisoned EXCEPT ![s] = [y \in Exchanges |-> TRUE]]
                    /\ UNCHANGED merged_orderbook
               ELSE /\ pc' = [pc EXCEPT ![s][x] = "send"]
                    /\ merged_orderbook' = [merged_orderbook EXCEPT ![s][x] = m.book]
                    /\ UNCHANGED poisoned
    /\ slotLock' = IF pc'[s][x] = "send" THEN slotLock
                   ELSE [slotLock EXCEPT ![s][x] = "free"]
    /\ new_orderbook' = [new_orderbook EXCEPT ![s][x] = NewOrderBook]
    /\ version' = IF pc'[s][x] = "send"
                  THEN [version EXCEPT !.merged[s][x] = version.slot[s]]
                  ELSE version
    /\ UNCHANGED <<depth, harness, sock, budget, drops, rx, queue, slot, senderPoisoned,
                   delivered, last>>

\* The publish that waits while the queue is full, as Sender::send would (a
\* variant the claim on try_send must tell apart).
SendAwaitingCapacity(s, x) ==
    /\ pc[s][x] = "send"
    /\ senderPoisoned[s] \/ TrySendResult(s) # "Full"
    /\ IF senderPoisoned[s]
       THEN /\ pc' = [pc EXCEPT ![s][x] = "panic_poison"]
            /\ poisoned' = [poisoned EXCEPT ![s][x] = TRUE]
            /\ UNCHANGED <<queue, senderPoisoned, version>>
       ELSE /\ IF TrySendResult(s) = "Ok"
               THEN /\ queue' = [queue EXCEPT ![s] =
                                   Append(@, orderbook_to_summary(merged_orderbook[s][x]))]
                    /\ pc' = [pc EXCEPT ![s][x] = "read"]
                    /\ version' = [version EXCEPT !.sent[s] = version.merged[s][x],
                                                   !.merged[s][x] = NoVersion]
                    /\ UNCHANGED <<poisoned, senderPoisoned>>
               ELSE /\ pc' = [pc EXCEPT ![s][x] = "panic_closed"]
                    /\ senderPoisoned' = [senderPoisoned EXCEPT ![s] = TRUE]
                    /\ poisoned' = [poisoned EXCEPT ![s][x] = TRUE]
                    /\ UNCHANGED <<queue, version>>
    /\ slotLock' = [slotLock EXCEPT ![s][x] = "free"]
    /\ merged_orderbook' = [merged_orderbook EXCEPT ![s][x] = NewOrderBook]
    /\ UNCHANGED <<depth, harness, sock, budget, drops, rx, slot, new_orderbook, delivered,
                   last>>

\* sender.lock().unwrap().try_send(Ok(summary)).unwrap(): an Err from
\* try_send (queue full, receiver gone) panics with the sender guard and the
\* own slot guard held.  Otherwise the body ends and the slot is unlocked.
Send(s, x) ==
    /\ pc[s][x] = "send"
    /\ IF senderPoisoned[s]
       THEN /\ pc' = [pc EXCEPT ![s][x] = "panic_poison"]
            /\ poisoned' = [poisoned EXCEPT ![s][x] = TRUE]
            /\ UNCHANGED <<queue, senderPoisoned, version>>
       ELSE /\ IF TrySendResult(s) = "Ok"
               THEN /\ queue' = [queue EXCEPT ![s] =
                                   Append(@, orderbook_to_summary(merged_orderbook[s][x]))]
                    /\ pc' = [pc EXCEPT ![s][x] = "read"]
                    /\ version' = [version EXCEPT !.sent[s] = version.merged[s][x],
                                                   !.merged[s][x] = NoVersion]
                    /\ UNCHANGED <<poisoned, senderPoisoned>>
               ELSE /\ pc' = [pc EXCEPT ![s][x] =
                                IF TrySendResult(s) = "Full" THEN "panic_full"
                                ELSE "panic_closed"]
                    /\ senderPoisoned' = [senderPoisoned EXCEPT ![s] = TRUE]
                    /\ poisoned' = [poisoned EXCEPT ![s][x] = TRUE]
                    /\ UNCHANGED <<queue, version>>
    /\ slotLock' = [slotLock EXCEPT ![s][x] = "free"]
    /\ merged_orderbook' = [merged_orderbook EXCEPT ![s][x] = NewOrderBook]
    /\ UNCHANGED <<depth, harness, sock, budget, drops, rx, slot, new_orderbook, delivered,
                   last>>

\* A stream that yields the newest queued snapshot instead of the oldest (a
\* variant the claim on the order of delivery must tell apart).
RecvNewest(s) ==
    /\ rx[s] = "open"
    /\ Len(queue[s]) > 0
    /\ Len(delivered[s]) < MaxReceived
    /\ delivered' = [delivered EXCEPT ![s] = Append(@, queue[s][Len(queue[s])])]
    /\ queue' = [queue EXCEPT ![s] = SubSeq(@, 1, Len(@) - 1)]
    /\ UNCHANGED <<depth, harness, sock, budget, drops, rx, pc, slot, slotLock, poisoned,
                   senderPoisoned, new_orderbook, merged_orderbook, last, version>>

\* The subscriber's stream yields the oldest queued snapshot.
Recv(s) ==
    /\ rx[s] = "open"
    /\ Len(queue[s]) > 0
    /\ Len(delivered[s]) < MaxReceived
    /\ delivered' = [delivered EXCEPT ![s] = Append(@, Head(queue[s]))]
    /\ queue' = [queue EXCEPT ![s] = Tail(@)]
    /\ UNCHANGED <<depth, harness, sock, budget, drops, rx, pc, slot, slotLock, poisoned,
                   senderPoisoned, new_orderbook, merged_orderbook, last, version>>

\* The subscriber drops its stream: the receiver and what it buffered go.
DropStream(s) ==
    /\ rx[s] = "open"
    /\ drops > 0
    /\ drops' = drops - 1
    /\ rx' = [rx EXCEPT ![s] = "dropped"]
    /\ queue' = [queue EXCEPT ![s] = <<>>]
    /\ UNCHANGED <<depth, harness, sock, budget, pc, slot, slotLock, poisoned,
                   senderPoisoned, new_orderbook, merged_orderbook, delivered, last, version>>

\* Both tasks of the subscription are over, so process_socket_messages has
\* returned and every clone of the Sender is dropped: the channel is closed,
\* and once the buffer is drained the stream yields None and ends.
StreamEnds(s) ==
    /\ rx[s] = "open"
    /\ \A x \in Exchanges : Ended(s, x)
    /\ queue[s] = <<>>
    /\ rx' = [rx EXCEPT ![s] = "ended"]
    /\ UNCHANGED <<depth, harness, sock, budget, drops, queue, pc, slot, slotLock, poisoned,
                   senderPoisoned, new_orderbook, merged_orderbook, delivered, last, version>>

TaskStep(s, x) ==
    \/ Read(s, x)
    \/ ReadError(s, x)
    \/ LockOwn(s, x)
    \/ LockOther(s, x)
    \/ Send(s, x)

Next ==
    \E s \in Subs :
        \/ BookSummary(s)
        \/ Recv(s)
        \/ DropStream(s)
        \/ StreamEnds(s)
        \/ \E x \in Exchanges : TaskStep(s, x)

Spec == Init /\ [][Next]_vars

\* The blocking tasks run on their own threads: a task that can take its
\* next step (it is not waiting for a frame or for a mutex) takes it.
TaskFairness ==
    \A s \in Subs, x \in Exchanges :
        /\ WF_vars(LockOwn(s, x))
        /\ WF_vars(LockOther(s, x))
        /\ WF_vars(Send(s, x))

SpecFair == Spec /\ TaskFairness

\* A service that has been running for a while: subscriber s1 called
\* BookSummary and has read nothing yet, Binance has sent the same update
\* ChannelCapacity - 1 times, each read and published by s1's Binance task,
\* and Bitstamp has sent nothing.
BacklogFrame == TopFrame(Arr(<<Entry("9.5", "2.0")>>), Arr(<<Entry("10.0", "1.0")>>))
BacklogBook == process_message(BacklogFrame, "binance", MaxDepth).book
BacklogSummary ==
    orderbook_to_summary(merge_orderbooks(BacklogBook, NewOrderBook, MaxDepth).book)

BacklogInit ==
    /\ depth = MaxDepth
    /\ call = NoCall
    /\ ret = NotRun
    /\ sock = [x \in Exchanges |-> "open"]
    /\ budget = MaxBacklogFrames
    /\ drops = MaxDrops
    /\ rx = [s \in Subs |-> IF s = "s1" THEN "open" ELSE "none"]
    /\ queue = [s \in Subs |-> IF s = "s1"
                               THEN [i \in 1..(ChannelCapacity - 1) |-> BacklogSummary]
                               ELSE <<>>]
    /\ pc = [s \in Subs |-> [x \in Exchanges |-> IF s = "s1" THEN "read" ELSE "idle"]]
    /\ slot = [PerTask(NewOrderBook) EXCEPT !["s1"]["binance"] = BacklogBook]
    /\ slotLock = PerTask("free")
    /\ poisoned = PerTask(FALSE)
    /\ senderPoisoned = [s \in Subs |-> FALSE]
    /\ new_orderbook = PerTask(NewOrderBook)
    /\ merged_orderbook = PerTask(NewOrderBook)
    /\ delivered = [s \in Subs |-> <<>>]
    /\ last = [x \in Exchanges |-> IF x = "binance" THEN BacklogBook ELSE NewOrderBook]
    /\ version = [NoVersions EXCEPT
                    !.slot["s1"]["binance"] = ChannelCapacity - 1,
                    !.sent["s1"]["binance"] = ChannelCapacity - 1]

SpecBacklog == BacklogInit /\ [][Next]_vars

\* The service started with any depth argument up to MaxDepth (0 included).
DepthsInit ==
    /\ depth \in 0..MaxDepth
    /\ call = NoCall
    /\ ret = NotRun
    /\ sock = [x \in Exchanges |-> "open"]
    /\ budget = MaxDepthsFrames
    /\ drops = MaxDrops
    /\ rx = [s \in Subs |-> "none"]
    /\ queue = [s \in Subs |-> <<>>]
    /\ pc = PerTask("idle")
    /\ slot = PerTask(NewOrderBook)
    /\ slotLock = PerTask("free")
    /\ poisoned = PerTask(FALSE)
    /\ senderPoisoned = [s \in Subs |-> FALSE]
    /\ new_orderbook = PerTask(NewOrderBook)
    /\ merged_orderbook = PerTask(NewOrderBook)
    /\ delivered = [s \in Subs |-> <<>>]
    /\ last = [x \in Exchanges |-> NewOrderBook]
    /\ version = NoVersions

SpecDepths == DepthsInit /\ [][Next]_vars

\* ------------------------------------------------------------------ connect
\* main awaits binance_connect, then bitstamp_connect, and serves once both
\* have returned their socket.  Each step of a connect function that fails
\* panics (expect, panic!), which unwinds main: nothing runs afterwards.
\* (the acknowledgements are those of the symbol ethbtc)
BinanceAck == "{\"result\":null,\"id\":1}"
BitstampAck ==
    "{\"event\":\"bts:subscription_succeeded\",\"channel\":\"detail_order_book_ethbtc\",\"data\":{}}"
Ack(x) == IF x = "binance" THEN BinanceAck ELSE BitstampAck

Text(t) == [type |-> "Text", text |-> t]
Binary == [type |-> "Binary"]
ReadErr == [type |-> "Err"]

\* What read_message can return for the first message.
FirstMessages ==
    {Text(BinanceAck), Text(BitstampAck), Text("{\"error\":\"bad request\"}"), Text(""),
     Binary, ReadErr}

ConnectPanics == {"panic_dial", "panic_write", "panic_read", "panic_ack", "panic_type"}

\* The process before main has connected anything.
ConnectInit ==
    /\ depth = MaxDepth
    /\ call = NoCall
    /\ ret = NotRun
    /\ sock = [x \in Exchanges |-> "disconnected"]
    /\ budget = MaxConnectFrames
    /\ drops = MaxDrops
    /\ rx = [s \in Subs |-> "none"]
    /\ queue = [s \in Subs |-> <<>>]
    /\ pc = PerTask("idle")
    /\ slot = PerTask(NewOrderBook)
    /\ slotLock = PerTask("free")
    /\ poisoned = PerTask(FALSE)
    /\ senderPoisoned = [s \in Subs |-> FALSE]
    /\ new_orderbook = PerTask(NewOrderBook)
    /\ merged_orderbook = PerTask(NewOrderBook)
    /\ delivered = [s \in Subs |-> <<>>]
    /\ last = [x \in Exchanges |-> NewOrderBook]
    /\ version = NoVersions

\* connect(url).expect(..): the socket, or a panic.
Dial(x) ==
    /\ sock[x] = "disconnected"
    /\ x = "bitstamp" => sock["binance"] = "open"
    /\ \E outcome \in {"dialed", "panic_dial"} : sock' = [sock EXCEPT ![x] = outcome]
    /\ UNCHANGED <<depth, harness, budget, drops, rx, queue, pc, slot, slotLock, poisoned,
                   senderPoisoned, new_orderbook, merged_orderbook, delivered, last, version>>

\* write_message(Message::Text(subscription)).expect(..)
Subscribe(x) ==
    /\ sock[x] = "dialed"
    /\ \E outcome \in {"subscribed", "panic_write"} : sock' = [sock EXCEPT ![x] = outcome]
    /\ UNCHANGED <<depth, harness, budget, drops, rx, queue, pc, slot, slotLock, poisoned,
                   senderPoisoned, new_orderbook, merged_orderbook, delivered, last, version>>

\* read_message().expect(..), then the first message is compared with the
\* exchange's acknowledgement; Ok(socket) only if it is that exact text.
FirstMessage(x) ==
    /\ sock[x] = "subscribed"
    /\ \E connection_message \in FirstMessages :
          sock' = [sock EXCEPT ![x] =
                     IF connection_message.type = "Err" THEN "panic_read"
                     ELSE IF connection_message.type # "Text" THEN "panic_type"
                     ELSE IF connection_message.text = Ack(x) THEN "open"
                     ELSE "panic_ack"]
    /\ UNCHANGED <<depth, harness, budget, drops, rx, queue, pc, slot, slotLock, poisoned,
                   senderPoisoned, new_orderbook, merged_orderbook, delivered, last, version>>

NextConnect ==
    \/ \E x \in Exchanges : Dial(x) \/ Subscribe(x) \/ FirstMessage(x)
    \/ Next

SpecConnect == ConnectInit /\ [][NextConnect]_vars

\* The calls of process_message: any frame, for either exchange.
ParserCalls ==
    {[fn |-> "process_message", frame |-> f, exchange |-> x] :
        f \in ParserFrames, x \in Exchanges}

\* The books of tests::test_merge_orderbooks.
TestBinanceBook ==
    OrderBook(<<PriceAmountLevel("binance", Fin(100), Fin(10)),
                PriceAmountLevel("binance", Fin(95), Fin(20))>>,
              <<PriceAmountLevel("binance", Fin(110), Fin(8)),
                PriceAmountLevel("binance", Fin(115), Fin(7))>>,
              Fin(5))
TestBitstampBook ==
    OrderBook(<<PriceAmountLevel("bitstamp", Fin(102), Fin(9)),
                PriceAmountLevel("bitstamp", Fin(98), Fin(15))>>,
              <<PriceAmountLevel("bitstamp", Fin(112), Fin(6)),
                PriceAmountLevel("bitstamp", Fin(118), Fin(4))>>,
              Fin(6))

\* Books whose levels are as listed in a frame, neither sorted nor trimmed.
ListedBooks(x) ==
    {OrderBook(ParseLevels(f.top.bids.items, x), ParseLevels(f.top.asks.items, x), Fin(0)) :
        f \in MergeFrames}

\* The calls of merge_orderbooks: the books parsed from a Binance frame and
\* from a Bitstamp frame at depth d, as the consumer tasks pass them; the
\* books of the repository's test; and a book, parsed or as listed, merged
\* with the empty book and with itself.
MergeCalls(d) ==
    LET books(x) == {process_message(f, x, d) : f \in MergeFrames}
        parsed(x) == {r.book : r \in {q \in books(x) : q.tag = "Some"}}
    IN {[fn |-> "merge_orderbooks", a |-> a, b |-> b] :
          a \in parsed("binance"), b \in parsed("bitstamp")}
       \cup {[fn |-> "merge_orderbooks", a |-> TestBinanceBook, b |-> TestBitstampBook]}
       \cup {[fn |-> "merge_orderbooks", a |-> a, b |-> NewOrderBook] :
                a \in ListedBooks("binance")}
       \cup {[fn |-> "merge_orderbooks", a |-> a, b |-> a] :
                a \in parsed("binance") \cup ListedBooks("binance")}

\* The levels of tests::test_sort_and_trim_levels, then a level that ties
\* with the first in price and amount, one that ties in price only, and one
\* whose price is NaN.
SortPool ==
    { PriceAmountLevel("exchange1", Fin(100), Fin(10)),
      PriceAmountLevel("exchange2", Fin(95), Fin(20)),
      PriceAmountLevel("exchange3", Fin(110), Fin(8)),
      PriceAmountLevel("exchange2", Fin(100), Fin(10)),
      PriceAmountLevel("exchange3", Fin(100), Fin(20)),
      PriceAmountLevel("exchange1", NaN, Fin(10)) }

\* The calls of sort_and_trim_levels: any slice of at most MaxSortLevels
\* levels, either direction.
SortCalls ==
    {[fn |-> "sort_and_trim_levels", levels |-> l, ascending |-> a] :
        l \in SeqsUpTo(SortPool, MaxSortLevels), a \in BOOLEAN}

InitParse ==
    /\ depth \in 0..MaxDepth
    /\ call \in ParserCalls \cup MergeCalls(depth) \cup SortCalls
    /\ ret = NotRun
    /\ ServiceInit

CallProcessMessage ==
    /\ call.fn = "process_message"
    /\ ret = NotRun
    /\ ret' = process_message(call.frame, call.exchange, depth)
    /\ UNCHANGED <<depth, call, service>>

CallMergeOrderbooks ==
    /\ call.fn = "merge_orderbooks"
    /\ ret = NotRun
    /\ ret' = merge_orderbooks(call.a, call.b, depth)
    /\ UNCHANGED <<depth, call, service>>

\* The returned Vec, or the panic of an unwrap in the closure.
Levels(levels) == [tag |-> "Levels", levels |-> levels]

CallSortAndTrimLevels ==
    /\ call.fn = "sort_and_trim_levels"
    /\ ret = NotRun
    /\ ret' = LET r == sort_and_trim_levels(call.levels, depth, call.ascending)
              IN IF r.ok THEN Levels(r.seq) ELSE Panic
    /\ UNCHANGED <<depth, call, service>>

NextParse == CallProcessMessage \/ CallMergeOrderbooks \/ CallSortAndTrimLevels

SpecParse == InitParse /\ [][NextParse]_vars

\* ================================================================== claims
\* What subscriber s has been sent so far and has not lost: what its stream
\* yielded, then what is still queued.
Sent(s) == delivered[s] \o queue[s]
Quiescent(s) == \A x \in Exchanges : pc[s][x] = "read"
IsSuffix(a, b) == Len(a) <= Len(b) /\ a = SubSeq(b, Len(b) - Len(a) + 1, Len(b))

\* C1: when a consumer task publishes to a subscriber whose queue already
\* holds ChannelCapacity snapshots, the queue is left as it was and the task
\* goes back to reading (it does not abort).
C1_OverflowDroppedSilently ==
    [][\A s \in Subs, x \in Exchanges :
         (/\ pc[s][x] = "send"
          /\ pc'[s][x] # "send"
          /\ rx[s] = "open"
          /\ ~senderPoisoned[s]
          /\ Len(queue[s]) = ChannelCapacity)
         => (queue'[s] = queue[s] /\ pc'[s][x] = "read")]_vars

\* C2: fan-out completeness.  Whenever two subscribers are both listening
\* and none of their tasks is in the middle of an update, the later caller
\* has been sent exactly what the earlier caller was sent since it joined:
\* its snapshots are the tail of the earlier caller's.
C2_FanOutComplete ==
    \A s \in Subs : \A t \in Earlier(s) :
        (rx[s] = "open" /\ rx[t] = "open" /\ Quiescent(s) /\ Quiescent(t))
        => IsSuffix(Sent(s), Sent(t))

\* C3: no state in which each task of a subscription holds its own slot lock
\* and waits for the other task's.
C3_NoDeadlock ==
    \A s \in Subs :
        ~(/\ pc[s]["binance"] = "lock_other"
          /\ pc[s]["bitstamp"] = "lock_other"
          /\ slotLock[s]["binance"] = "binance"
          /\ slotLock[s]["bitstamp"] = "bitstamp")

\* C4: under fair scheduling of the tasks, a task that has accepted a frame
\* gets to call try_send with the merged snapshot (after which it is back at
\* the read, or has panicked on the result of try_send).
C4_AcceptedEventuallyPublished ==
    \A s \in Subs : \A x \in Exchanges :
        (pc[s][x] = "lock_own")
        ~> (pc[s][x] \in {"read", "panic_full", "panic_closed"})

\* C5: the snapshot a task builds for publishing is merge_orderbooks of the
\* books stored last, by the service as a whole, for Binance and Bitstamp.
C5_SnapshotMergesNewestBooks ==
    [][\A s \in Subs, x \in Exchanges :
         (pc[s][x] = "lock_other" /\ pc'[s][x] = "send")
         => Some(merged_orderbook'[s][x])
              = merge_orderbooks(last["binance"], last["bitstamp"], depth)]_vars

\* C6: isolation.  An upstream update that a live subscriber's reader is
\* waiting for is never taken by a task of a subscriber that has dropped its
\* stream (the live subscriber would miss that snapshot).
C6_DroppedSubscriberTakesNoUpdate ==
    [][\A s \in Subs, x \in Exchanges :
         (pc[s][x] = "read" /\ pc'[s][x] = "lock_own" /\ rx[s] = "dropped")
         => \A t \in Subs \ {s} : ~(rx[t] = "open" /\ pc[t][x] = "read")]_vars

\* The call made on its own was of process_message / merge_orderbooks and
\* has returned a book.
ParsedABook == call.fn = "process_message" /\ ret.tag = "Some"
MergedABook == call.fn = "merge_orderbooks" /\ ret.tag = "Some"
BothSides(book) == Len(book.bids) > 0 /\ Len(book.asks) > 0

C8_SpreadFromReturnedBest ==
    ParsedABook =>
        IF BothSides(ret.book)
        THEN ret.book.spread \in { FSub(ret.book.asks[1].price, ret.book.bids[1].price),
                                   FSub(ret.book.bids[1].price, ret.book.asks[1].price) }
        ELSE ret.book.spread = Fin(0)

\* The levels of one array of the frame of the call, in the order listed.
Listed(side) ==
    LET data == IF call.frame.hasData THEN call.frame.data ELSE call.frame.top
    IN ParseLevels(IF side = "bids" THEN data.bids.items ELSE data.asks.items,
                   call.exchange)

Prefix(levels, n) == IF n <= Len(levels) THEN SubSeq(levels, 1, n) ELSE levels

\* Prices listed in descending (in ascending) order, equal prices allowed.
PriceOrdered(levels, ascending) ==
    \A i \in 1..(Len(levels) - 1) :
        PartialCmp(levels[i].price, levels[i + 1].price)
            \in {"Equal", IF ascending THEN "Less" ELSE "Greater"}

\* Entries of equal price listed by non-increasing amount.
TiesByAmount(levels) ==
    \A i \in 1..(Len(levels) - 1) :
        FEq(levels[i].price, levels[i + 1].price)
        => PartialCmp(levels[i].amount, levels[i + 1].amount) \in {"Equal", "Greater"}

DescendingBidsAscendingAsks ==
    /\ call.fn = "process_message"
    /\ call.frame.json
    /\ Len(Listed("bids")) > 0
    /\ Len(Listed("asks")) > 0
    /\ PriceOrdered(Listed("bids"), FALSE)
    /\ PriceOrdered(Listed("asks"), TRUE)

ReturnsListedOrder ==
    /\ ret.tag = "Some"
    /\ ret.book.bids = Prefix(Listed("bids"), depth)
    /\ ret.book.asks = Prefix(Listed("asks"), depth)
    /\ ret.book.spread = FSub(Listed("bids")[1].price, Listed("asks")[1].price)

\* C9 as stated: for a frame with bids listed in descending and asks in
\* ascending price order, both non-empty, process_message returns the levels
\* (the first depth of them) in the order listed, tagged with the exchange
\* argument, and the first bid price minus the first ask price as spread.
C9_OrderedFrameKeptAsListed ==
    (DescendingBidsAscendingAsks /\ ret # NotRun) => ReturnsListedOrder

\* C9 with the order the code keeps: when, besides, entries of equal price
\* are listed by non-increasing amount, process_message returns the first
\* min(depth, n) levels of each side in the order listed, tagged with the
\* exchange argument, and the first bid price minus the first ask price.
C9_SortedFrameKeptAsListed ==
    (/\ DescendingBidsAscendingAsks
     /\ TiesByAmount(Listed("bids"))
     /\ TiesByAmount(Listed("asks"))
     /\ ret # NotRun)
    => ReturnsListedOrder

\* The frame of the repository's test parsed at depth 2: both levels of each
\* side as listed, spread 10.0 - 11.0 = -1.0.
C9_TestFrameParsed ==
    /\ call.fn = "process_message"
    /\ call.frame = TestFrame
    /\ depth = 2
    /\ ret.tag = "Some"
    /\ Len(ret.book.bids) = 2
    /\ Len(ret.book.asks) = 2
    /\ ret.book.bids[1] = PriceAmountLevel(call.exchange, Fin(100), Fin(10))
    /\ ret.book.asks[2] = PriceAmountLevel(call.exchange, Fin(115), Fin(7))
    /\ ret.book.spread = Fin(0 - 10)

\* bids by non-increasing price, asks by non-decreasing price, and levels of
\* equal price by non-increasing amount.
BookOrdered(book) ==
    /\ PriceOrdered(book.bids, FALSE) /\ TiesByAmount(book.bids)
    /\ PriceOrdered(book.asks, TRUE) /\ TiesByAmount(book.asks)

\* C10: in every reachable state every book in a per-exchange slot and every
\* published snapshot (queued or already yielded) is ordered: bids by
\* non-increasing price, asks by non-decreasing price, equal prices by
\* non-increasing amount.
C10_BooksOrdered ==
    \A s \in Subs :
        /\ \A x \in Exchanges : BookOrdered(slot[s][x])
        /\ \A i \in 1..Len(queue[s]) : BookOrdered(queue[s][i])
        /\ \A i \in 1..Len(delivered[s]) : BookOrdered(delivered[s][i])

\* A snapshot has been yielded whose bids Binance listed out of order and
\* whose asks are a price tie Bitstamp listed smaller amount first.
C10_ReorderedSnapshotYielded ==
    \E s \in Subs : \E i \in 1..Len(delivered[s]) :
        LET b == delivered[s][i]
        IN /\ Len(b.bids) = 2 /\ Len(b.asks) = 2
           /\ b.bids[1].price = Fin(102) /\ b.bids[2].price = Fin(100)
           /\ b.asks[1].price = Fin(100) /\ b.asks[2].price = Fin(100)
           /\ b.asks[1].amount = Fin(20) /\ b.asks[2].amount = Fin(10)
           /\ slot[s]["binance"].bids[1].price = Fin(102)

Min(a, b) == IF a <= b THEN a ELSE b
\* The object of a frame that holds its bids and asks arrays.
FrameArrays(frame) == IF frame.hasData THEN frame.data ELSE frame.top

WithinDepth(book) == Len(book.bids) <= depth /\ Len(book.asks) <= depth

\* A task takes a frame: each side of the book it gets has exactly
\* min(depth, levels parsed from the array) levels.
ParsedSidesExact ==
    \A s \in Subs, x \in Exchanges :
        (pc[s][x] = "read" /\ pc'[s][x] = "lock_own")
        => \A f \in WireFrames(x) :
               process_message(f, x, depth) = Some(new_orderbook'[s][x])
               => /\ Len(new_orderbook'[s][x].bids)
                       = Min(depth, Len(ParseLevels(FrameArrays(f).bids.items, x)))
                  /\ Len(new_orderbook'[s][x].asks)
                       = Min(depth, Len(ParseLevels(FrameArrays(f).asks.items, x)))

\* A task merges: each side of the merged book has exactly min(depth, levels
\* of the two slots together) levels (its own slot holds the book it took).
MergedSidesExact ==
    \A s \in Subs, x \in Exchanges :
        (pc[s][x] = "lock_other" /\ pc'[s][x] = "send")
        => /\ Len(merged_orderbook'[s][x].bids)
                = Min(depth, Len(slot[s]["binance"].bids) + Len(slot[s]["bitstamp"].bids))
           /\ Len(merged_orderbook'[s][x].asks)
                = Min(depth, Len(slot[s]["binance"].asks) + Len(slot[s]["bitstamp"].asks))

\* C11: in every reachable state each side of every per-exchange slot and of
\* every published snapshot has at most depth levels, and each side that
\* sort_and_trim_levels produces (for process_message and for
\* merge_orderbooks) has exactly min(depth, input length) levels, for every
\* depth from 0 on.
C11_SidesTrimmedToDepth ==
    /\ [](\A s \in Subs :
            /\ \A x \in Exchanges : WithinDepth(slot[s][x])
            /\ \A i \in 1..Len(queue[s]) : WithinDepth(queue[s][i])
            /\ \A i \in 1..Len(delivered[s]) : WithinDepth(delivered[s][i]))
    /\ [][ParsedSidesExact /\ MergedSidesExact]_vars

\* At depth 0 a frame with levels on both sides (its spread is not 0) was
\* stored with empty sides and an empty snapshot was published and yielded.
C11_EmptyBookAtDepthZero ==
    /\ depth = 0
    /\ \E s \in Subs :
         /\ slot[s]["binance"].spread # Fin(0)
         /\ slot[s]["binance"].bids = <<>>
         /\ slot[s]["binance"].asks = <<>>
         /\ Len(delivered[s]) > 0
         /\ delivered[s][1].bids = <<>>

\* C12: no book process_message returns holds a level whose amount is 0
\* (zero-amount entries of the frame are dropped by the parser).
C12_NoZeroAmountLevel ==
    ParsedABook =>
        /\ \A i \in 1..Len(ret.book.bids) : ~FEq(ret.book.bids[i].amount, Fin(0))
        /\ \A i \in 1..Len(ret.book.asks) : ~FEq(ret.book.asks[i].amount, Fin(0))

\* How often level v occurs in a sequence of levels.
Count(levels, v) == Cardinality({i \in DOMAIN levels : levels[i] = v})

\* Level v comes strictly before level w in the order of a side: a better
\* price, or the same price and a larger amount.
Before(v, w, ascending) ==
    IF FEq(v.price, w.price) THEN PartialCmp(v.amount, w.amount) = "Greater"
    ELSE PartialCmp(v.price, w.price) = (IF ascending THEN "Less" ELSE "Greater")

\* r is the first min(d, n) levels of the n levels of all put in order: it
\* has that length, is in order, takes each level from all (tag, price and
\* amount, no more often than it occurs there), and no level left out comes
\* strictly before a level taken.
FirstOfSorted(r, all, d, ascending) ==
    /\ Len(r) = Min(d, Len(all))
    /\ PriceOrdered(r, ascending)
    /\ TiesByAmount(r)
    /\ \A i \in DOMAIN r : Count(r, r[i]) <= Count(all, r[i])
    /\ \A j \in DOMAIN all :
         Count(r, all[j]) < Count(all, all[j])
         => \A i \in DOMAIN r : ~Before(all[j], r[i], ascending)

\* C13: merge_orderbooks(a, b, depth) returns on each side the first
\* min(depth, |a.side| + |b.side|) levels of the sorted concatenation of a's
\* and b's levels (bids by price descending, asks ascending), each returned
\* level identical in exchange tag, price and amount to a level of a or b.
C13_MergeTakesBestOfBoth ==
    MergedABook =>
        /\ FirstOfSorted(ret.book.bids, call.a.bids \o call.b.bids, depth, FALSE)
        /\ FirstOfSorted(ret.book.asks, call.a.asks \o call.b.asks, depth, TRUE)

\* The books of the repository's test merged at depth 2: the best two of
\* the four bids and of the four asks, one from each exchange.
C13_TestBooksMerged ==
    /\ MergedABook
    /\ call.a = TestBinanceBook
    /\ call.b = TestBitstampBook
    /\ depth = 2
    /\ ret.book.bids = <<PriceAmountLevel("bitstamp", Fin(102), Fin(9)),
                         PriceAmountLevel("binance", Fin(100), Fin(10))>>
    /\ ret.book.asks = <<PriceAmountLevel("binance", Fin(110), Fin(8)),
                         PriceAmountLevel("bitstamp", Fin(112), Fin(6))>>

\* Each level of a sequence twice, the copies side by side.
Duplicated(levels) == [i \in 1..(2 * Len(levels)) |-> levels[(i + 1) \div 2]]

SortedAndTrimmed(side, levels, ascending) ==
    LET r == sort_and_trim_levels(levels, depth, ascending)
    IN r.ok /\ side = r.seq

\* C15: merge idempotence.  merge_orderbooks(b, empty, d) has the bids and
\* asks that sort_and_trim_levels gives for b's; merge_orderbooks(b, b, d)
\* has b's levels each duplicated, sorted again and truncated to d.
C15_MergeIdempotence ==
    /\ (MergedABook /\ call.b = NewOrderBook)
       => /\ SortedAndTrimmed(ret.book.bids, call.a.bids, FALSE)
          /\ SortedAndTrimmed(ret.book.asks, call.a.asks, TRUE)
    /\ (MergedABook /\ call.b = call.a)
       => /\ SortedAndTrimmed(ret.book.bids, Duplicated(call.a.bids), FALSE)
          /\ SortedAndTrimmed(ret.book.asks, Duplicated(call.a.asks), TRUE)

\* A book listing bid 9.5 before bid 10.2 merged with itself at depth 2:
\* both returned bids are the 10.2 level.
C15_BookMergedWithItself ==
    /\ MergedABook
    /\ call.b = call.a
    /\ depth = 2
    /\ Len(call.a.bids) = 2
    /\ call.a.bids[1].price = Fin(95)
    /\ call.a.bids[2].price = Fin(102)
    /\ ret.book.bids = <<call.a.bids[2], call.a.bids[2]>>

\* f64 written as Rust's to_string writes it (10.0 as "10", 0.8 as "0.8").
FormatF64(a) ==
    CASE a = Fin(95) -> "9.5"
      [] a = Fin(100) -> "10"
      [] a = Fin(102) -> "10.2"
      [] a = Fin(110) -> "11"
      [] a = Fin(115) -> "11.5"
      [] a = Fin(10) -> "1"
      [] a = Fin(20) -> "2"
      [] a = Fin(8) -> "0.8"
      [] a = Fin(7) -> "0.7"
      [] a = Fin(0) -> "0"
      [] a = PosInf -> "inf"
      [] OTHER -> "NaN"

\* A book written back as a frame: {"bids": [[price, amount], ...], "asks": ...}.
Serialized(book) ==
    LET entries(levels) ==
            [i \in 1..Len(levels) |->
                Entry(FormatF64(levels[i].price), FormatF64(levels[i].amount))]
    IN TopFrame(Arr(entries(book.bids)), Arr(entries(book.asks)))

\* C16: parser idempotence.  The book process_message returns for a frame,
\* written back as a frame and parsed with the same exchange and depth, comes
\* back equal in bids, asks and spread.
C16_ParserIdempotence ==
    ParsedABook =>
        LET again == process_message(Serialized(ret.book), call.exchange, depth)
        IN /\ again.tag = "Some"
           /\ again.book.bids = ret.book.bids
           /\ again.book.asks = ret.book.asks
           /\ again.book.spread = ret.book.spread

\* No Bitstamp level stands before a Binance level of the same price and
\* amount.
BinanceFirstOnFullTies(levels) ==
    \A i, j \in DOMAIN levels :
        (/\ i < j
         /\ FEq(levels[i].price, levels[j].price)
         /\ FEq(levels[i].amount, levels[j].amount))
        => ~(levels[i].exchange = "bitstamp" /\ levels[j].exchange = "binance")

BinanceFirstInBook(book) ==
    BinanceFirstOnFullTies(book.bids) /\ BinanceFirstOnFullTies(book.asks)

\* C14: in every snapshot a task has merged (whichever exchange's frame it
\* took) and in every published snapshot, a Binance level precedes a Bitstamp
\* level of the same price and amount: merge_orderbooks puts its first
\* argument's level first and both tasks pass the Binance book first.
C14_BinanceFirstOnFullTies ==
    \A s \in Subs :
        /\ \A x \in Exchanges : BinanceFirstInBook(merged_orderbook[s][x])
        /\ \A i \in 1..Len(queue[s]) : BinanceFirstInBook(queue[s][i])
        /\ \A i \in 1..Len(delivered[s]) : BinanceFirstInBook(delivered[s][i])

\* Bid 9.5 for 2.0 on both exchanges: a snapshot with the Binance level
\* first was yielded, and the Binance task has merged such a snapshot again.
C14_FullTiePublished ==
    LET tie == <<PriceAmountLevel("binance", Fin(95), Fin(20)),
                 PriceAmountLevel("bitstamp", Fin(95), Fin(20))>>
    IN \E s \in Subs :
         /\ Len(delivered[s]) = 2
         /\ delivered[s][1].bids = <<tie[1]>>
         /\ delivered[s][2].bids = tie
         /\ pc[s]["binance"] = "send"
         /\ merged_orderbook[s]["binance"].bids = tie

\* The task of exchange x of subscription s has ended on a read error.
Failed(s, x) == pc[s][x] = "done"

\* The read error that ends a task leaves the other task of the subscription
\* where it is and the slots as they are.
FailureLeavesTheRest(s, x) ==
    (~Failed(s, x) /\ pc'[s][x] = "done")
    => /\ pc'[s][Other(x)] = pc[s][Other(x)]
       /\ slot'[s] = slot[s]
       /\ slotLock'[s] = slotLock[s]

\* After the failure the failed exchange's slot keeps the book stored last.
FailedSlotKept(s, x) ==
    Failed(s, x) => (slot'[s][x] = slot[s][x] /\ pc'[s][x] = "done")

\* After the failure of x the other task merges its own newest book (the
\* one in its slot) with the book in the failed exchange's slot, and what
\* it publishes is that merged book.
SurvivorMergesFailedSlot(s, x) ==
    LET y == Other(x)
    IN /\ (Failed(s, x) /\ pc[s][y] = "lock_other" /\ pc'[s][y] # "lock_other")
          => /\ slot[s][y] = new_orderbook[s][y]
             /\ LET m == merge_orderbooks(slot[s]["binance"], slot[s]["bitstamp"], depth)
                IN /\ m.tag = "Some" <=> pc'[s][y] = "send"
                   /\ m.tag = "Some" => merged_orderbook'[s][y] = m.book
       /\ (Failed(s, x) /\ pc[s][y] = "send" /\ pc'[s][y] = "read")
          => queue'[s] = Append(queue[s], orderbook_to_summary(merged_orderbook[s][y]))

\* C17: a read error that ends one exchange's task does not stop the other
\* exchange's task of the subscription: the ended task holds no slot lock
\* and has poisoned nothing, the other task goes on from where it was, and
\* every snapshot it publishes afterwards is the merge of its own newest
\* book with the book stored last in the failed exchange's slot.
C17_SurvivorKeepsPublishing ==
    /\ [](\A s \in Subs, x \in Exchanges :
            Failed(s, x) => slotLock[s][x] = "free")
    /\ [][\A s \in Subs, x \in Exchanges :
            /\ FailureLeavesTheRest(s, x)
            /\ FailedSlotKept(s, x)
            /\ SurvivorMergesFailedSlot(s, x)]_vars

\* Binance has failed with a book in its slot, and the Bitstamp task of the
\* subscription has a snapshot to publish that holds that book's bid next
\* to its own.
C17_SurvivorMergedAfterFailure ==
    \E s \in Subs :
        /\ sock["binance"] = "failed"
        /\ Failed(s, "binance")
        /\ slot[s]["binance"].bids = <<PriceAmountLevel("binance", Fin(95), Fin(20))>>
        /\ pc[s]["bitstamp"] = "send"
        /\ merged_orderbook[s]["bitstamp"].bids =
               <<PriceAmountLevel("binance", Fin(95), Fin(20)),
                 PriceAmountLevel("bitstamp", Fin(95), Fin(20))>>

\* C18: once both upstream sockets have failed and the tasks of a
\* subscription have ended on it, the subscriber's stream stays open until
\* the subscriber itself drops it.
C18_StreamStaysOpen ==
    [][\A s \in Subs :
         (rx[s] = "open" /\ \A x \in Exchanges : sock[x] = "failed" /\ Failed(s, x))
         => rx'[s] \in {"open", "dropped"}]_vars

\* C19: once a subscriber has dropped its stream and the first publish
\* attempt after the drop has been made, eventually no task of that
\* subscription is reading the upstream sockets any more.
C19_DroppedSubscriberDeregistered ==
    \A s \in Subs :
        (rx[s] = "dropped" /\ \E x \in Exchanges : pc[s][x] = "panic_closed")
        ~> (\A x \in Exchanges : pc[s][x] # "read")

\* C20: each upstream socket has a single reader task: no two tasks have
\* each taken a frame from the same socket.
C20_SingleReaderPerSocket ==
    \A x \in Exchanges : \A s, t \in Subs :
        (/\ pc[s][x] \in {"lock_own", "lock_other", "send"}
         /\ pc[t][x] \in {"lock_own", "lock_other", "send"})
        => s = t

\* C21: a connect function reports a failure to its caller as an error
\* value: neither a failed dial, nor a failed subscription write, nor a
\* missing, non-text or mismatched first message aborts the caller.
C21_ConnectFailureReturned == \A x \in Exchanges : sock[x] \notin ConnectPanics


\* A task of exchange x takes a frame off the socket / ends on a read error.
FrameRead(x) == \E s \in Subs : Read(s, x)
ReadFailed(x) == \E s \in Subs : pc[s][x] = "read" /\ pc'[s][x] = "done"

\* How far a session is: connecting, streaming, over.
Stage(v) ==
    CASE v = "disconnected" -> 0
      [] v = "dialed" -> 1
      [] v = "subscribed" -> 2
      [] v = "open" -> 3
      [] OTHER -> 4

\* C22: an upstream session only moves forward through disconnected,
\* dialing, handshaking, streaming, closed; a frame is read into a book
\* only while it streams, which it does only once the subscription was
\* sent and acknowledged; and a read error closes the session, after which
\* no frame is read from it.
C22_SessionLifecycle ==
    [][\A x \in Exchanges :
         /\ sock'[x] # sock[x] => Stage(sock'[x]) > Stage(sock[x])
         /\ sock'[x] = "open" /\ sock[x] # "open" => sock[x] = "subscribed"
         /\ FrameRead(x) => sock[x] = "open"
         /\ ReadFailed(x) => sock'[x] = "failed"
         /\ sock[x] = "failed" => ~FrameRead(x)]_vars


\* A task of subscription s holds a merge it has computed and not yet sent.
Unsent(s) == {x \in Exchanges : pc[s][x] = "send"}

\* C23: per subscriber the snapshots are received in the order of the
\* merges that produced them.  A merge is computed only when the
\* subscription has no merge waiting to be sent, the queue grows only at
\* its tail and only by the snapshot of that one waiting merge, and the
\* stream takes only the head of the queue, appending it to what was
\* received; a queue is otherwise only emptied when its stream is dropped.
C23_PerSubscriberFifo ==
    [][\A s \in Subs :
         /\ Cardinality(Unsent(s)) <= 1
         /\ (\E x \in Exchanges : pc[s][x] = "lock_other" /\ pc'[s][x] = "send")
               => Unsent(s) = {}
         /\ queue'[s] # queue[s] =>
               \/ \E x \in Unsent(s) :
                     /\ queue'[s] = Append(queue[s], orderbook_to_summary(merged_orderbook[s][x]))
                     /\ pc'[s][x] = "read"
                     /\ delivered'[s] = delivered[s]
               \/ /\ queue[s] # <<>>
                  /\ queue'[s] = Tail(queue[s])
                  /\ delivered'[s] = Append(delivered[s], Head(queue[s]))
               \/ /\ rx'[s] = "dropped"
                  /\ queue'[s] = <<>>
                  /\ delivered'[s] = delivered[s]
         /\ delivered'[s] # delivered[s] => queue'[s] # queue[s]]_vars

\* A subscriber has received two different snapshots while a third, different
\* from the second, was queued behind them.
C23_SnapshotsReceivedInOrder ==
    \E s \in Subs :
        /\ Len(delivered[s]) >= 2
        /\ delivered[s][1] # delivered[s][2]
        /\ Len(queue[s]) >= 1
        /\ queue[s][1] # delivered[s][2]


\* The frames the parser is to reject: text that is not JSON, and documents
\* that, below "data" when there is one, lack the bids or the asks array.
Rejected(frame) ==
    \/ ~frame.json
    \/ ~FrameArrays(frame).bids.present
    \/ ~FrameArrays(frame).asks.present

\* Both arrays are there and none of their entries is a level.
NoValidEntry(frame) ==
    /\ ~Rejected(frame)
    /\ \A side \in {FrameArrays(frame).bids.items, FrameArrays(frame).asks.items} :
           \A i \in DOMAIN side : ~EntryParses(side[i])

\* For every frame, handed to the parser directly or sent by an upstream,
\* and either exchange: nothing is returned for a rejected frame, and the
\* empty book with spread 0 for one without a valid entry.
RejectedReturnsNothing ==
    \A frame \in ParserFrames \cup BinanceFrames \cup BitstampFrames, x \in Exchanges :
        /\ Rejected(frame) => process_message(frame, x, depth) = None
        /\ NoValidEntry(frame) => process_message(frame, x, depth) = Some(NewOrderBook)

\* C24: a frame the parser rejects changes nothing.  process_message
\* returns nothing for it (and the empty book with spread 0 when the arrays
\* are there without a valid entry; what the parser returns does not depend
\* on the state, so this part is evaluated in the steps from the state in
\* which nothing has subscribed yet), and the step in which a task takes a
\* frame and goes back to reading, which is what it does when nothing is
\* returned, leaves the slots, the queues, what was received and the books
\* the tasks hold as they were.
C24_RejectedFrameChangesNothing ==
    [][/\ (\A s \in Subs : rx[s] = "none") => RejectedReturnsNothing
       /\ (budget' = budget - 1 /\ pc' = pc)
          => /\ slot' = slot
             /\ queue' = queue
             /\ delivered' = delivered
             /\ new_orderbook' = new_orderbook
             /\ merged_orderbook' = merged_orderbook
             /\ last' = last]_vars

\* One subscription alone has read every frame the upstreams sent, all of
\* them rejected: its tasks are reading, its slots are empty and nothing was
\* published.
C24_OnlyRejectedFramesRead ==
    /\ budget = 0
    /\ rx = [s \in Subs |-> IF s = "s1" THEN "open" ELSE "none"]
    /\ \A x \in Exchanges : sock[x] = "open" /\ pc["s1"][x] = "read"
    /\ slot["s1"] = [x \in Exchanges |-> NewOrderBook]
    /\ queue["s1"] = <<>> /\ delivered["s1"] = <<>>


\* The levels of a side as a set, and a book all of whose levels carry x.
LevelSet(levels) == {levels[i] : i \in DOMAIN levels}
Tagged(book, x) == \A level \in LevelSet(book.bids) \cup LevelSet(book.asks) : level.exchange = x

\* Every book of exchange x, parsed or stored, has only levels tagged x.
SlotsTagged ==
    \A x \in Exchanges :
        /\ Tagged(last[x], x)
        /\ \A s \in Subs : Tagged(slot[s][x], x) /\ Tagged(new_orderbook[s][x], x)

\* The merge a task computes takes each level, tag included, from the slot
\* of the exchange the tag names.
MergeKeepsTags ==
    \A s \in Subs, x \in Exchanges :
        pc[s][x] = "lock_other" /\ pc'[s][x] = "send"
        => LET m == merged_orderbook'[s][x]
           IN /\ \A level \in LevelSet(m.bids) :
                    /\ level.exchange \in Exchanges
                    /\ level \in LevelSet(slot[s][level.exchange].bids)
              /\ \A level \in LevelSet(m.asks) :
                    /\ level.exchange \in Exchanges
                    /\ level \in LevelSet(slot[s][level.exchange].asks)

\* The snapshot a task publishes has, level for level, the tags of its merge.
SnapshotKeepsTags ==
    \A s \in Subs, x \in Exchanges :
        pc[s][x] = "send" /\ Len(queue'[s]) = Len(queue[s]) + 1
        => LET m == merged_orderbook[s][x]
               snapshot == queue'[s][Len(queue'[s])]
           IN /\ Len(snapshot.bids) = Len(m.bids) /\ Len(snapshot.asks) = Len(m.asks)
              /\ \A i \in DOMAIN m.bids : snapshot.bids[i].exchange = m.bids[i].exchange
              /\ \A i \in DOMAIN m.asks : snapshot.asks[i].exchange = m.asks[i].exchange

\* C25: every level in the Binance slot is tagged "binance" and every level
\* in the Bitstamp slot "bitstamp", and every level of every published
\* snapshot carries the tag of the slot it came from.
C25_LevelsCarryTheirExchange ==
    /\ SlotsTagged
    /\ [][SlotsTagged' /\ MergeKeepsTags /\ SnapshotKeepsTags]_vars

\* A subscriber has received a snapshot with a level of each exchange while
\* both slots of its subscription hold levels.
C25_BothTagsPublished ==
    \E s \in Subs, n \in 1..MaxReceived :
        /\ n <= Len(delivered[s])
        /\ {level.exchange : level \in LevelSet(delivered[s][n].bids)
                                        \cup LevelSet(delivered[s][n].asks)} = Exchanges
        /\ \A x \in Exchanges : Len(slot[s][x].bids) > 0


\* A book or snapshot all of whose prices and amounts are finite numbers.
FiniteLevels(book) ==
    \A level \in LevelSet(book.bids) \cup LevelSet(book.asks) :
        level.price.k = "fin" /\ level.amount.k = "fin"

\* C26: non-finite numbers never reach a book or corrupt the ordering.  An
\* entry whose price or amount denotes NaN or an infinity is skipped, so no
\* task aborts in a sort, and no slot and no published snapshot holds a
\* level with a non-finite price or amount.
C26_NonFiniteSkipped ==
    \A s \in Subs :
        /\ \A x \in Exchanges :
              /\ pc[s][x] \notin {"panic_sort", "panic_merge"}
              /\ FiniteLevels(slot[s][x])
        /\ \A i \in DOMAIN queue[s] : FiniteLevels(queue[s][i])
        /\ \A i \in DOMAIN delivered[s] : FiniteLevels(delivered[s][i])


\* Levels v and w tie: neither comes strictly before the other.
Ties(v, w, ascending) == ~Before(v, w, ascending) /\ ~Before(w, v, ascending)

\* Where a stable sort puts element i of levels: behind every element that
\* comes strictly before it and every element it ties with that is listed
\* earlier.
StablePosition(levels, i, ascending) ==
    1 + Cardinality({j \in DOMAIN levels :
                        \/ Before(levels[j], levels[i], ascending)
                        \/ Ties(levels[j], levels[i], ascending) /\ j < i})

\* r is the first min(d, |levels|) elements of the stable sort of levels.
StableFirst(r, levels, d, ascending) ==
    /\ Len(r) = Min(d, Len(levels))
    /\ \A i \in DOMAIN levels :
          StablePosition(levels, i, ascending) <= Len(r)
          => r[StablePosition(levels, i, ascending)] = levels[i]

Comparable(levels) ==
    \A i \in DOMAIN levels : ~IsNaN(levels[i].price) /\ ~IsNaN(levels[i].amount)

\* C27: on levels whose prices and amounts compare, sort_and_trim_levels
\* returns the first min(depth, |levels|) elements of the stable sort of
\* levels by price (ascending or descending as the flag says) then by amount
\* descending, so that full ties keep their input order and every returned
\* element is an element of the input; the slice passed in is as it was.
C27_StableSortThenTrim ==
    [][(call.fn = "sort_and_trim_levels" /\ ret = NotRun /\ ret' # NotRun
            /\ Comparable(call.levels))
       => /\ call' = call
          /\ ret'.tag = "Levels"
          /\ StableFirst(ret'.levels, call.levels, depth, call.ascending)
          /\ \A i \in DOMAIN ret'.levels : Count(ret'.levels, ret'.levels[i])
                                              <= Count(call.levels, ret'.levels[i])]_vars

\* A slice with two different levels that tie in price and amount was
\* sorted and trimmed to fewer levels than it had, both of the two among
\* those returned.
C27_FullTieSortedAndTrimmed ==
    /\ call.fn = "sort_and_trim_levels"
    /\ ret # NotRun
    /\ ret.tag = "Levels"
    /\ Len(ret.levels) < Len(call.levels)
    /\ \E i, j \in DOMAIN ret.levels :
          /\ i < j
          /\ ret.levels[i] # ret.levels[j]
          /\ FEq(ret.levels[i].price, ret.levels[j].price)
          /\ FEq(ret.levels[i].amount, ret.levels[j].amount)


\* C28: each slot has a single writer.  The slots of a subscription start
\* empty, and a step changes the slot of exchange x only when the consumer
\* task of x stores the book it parsed from a frame of x, which leaves the
\* slot of the other exchange as it was.
C28_SingleWriterPerSlot ==
    /\ slot = PerTask(NewOrderBook)
    /\ [][\A s \in Subs, x \in Exchanges :
            slot'[s][x] # slot[s][x]
            => /\ pc[s][x] = "lock_own" /\ pc'[s][x] = "lock_other"
               /\ slot'[s][x] = new_orderbook[s][x]
               /\ Tagged(new_orderbook[s][x], x)
               /\ slot'[s][Other(x)] = slot[s][Other(x)]
               /\ \A t \in Subs \ {s} : slot'[t] = slot[t]]_vars

\* Both tasks of a subscription have stored a book, and the Binance task
\* has since replaced its own with a different one.
C28_BothSlotsWritten ==
    \E s \in Subs :
        /\ \A x \in Exchanges : Len(slot[s][x].bids) > 0
        /\ \E n \in 1..MaxReceived :
              /\ n <= Len(delivered[s])
              /\ \E i \in DOMAIN delivered[s][n].bids :
                    /\ delivered[s][n].bids[i].exchange = "binance"
                    /\ \A j \in DOMAIN slot[s]["binance"].bids :
                          slot[s]["binance"].bids[j].price # delivered[s][n].bids[i].price


\* C29: a subscriber's queue never holds more than ChannelCapacity
\* snapshots, and a task that has a snapshot to publish can always take its
\* publishing step: it does not wait for room in the queue.
C29_QueueBoundedPublishNeverWaits ==
    \A s \in Subs :
        /\ Len(queue[s]) <= ChannelCapacity
        /\ \A x \in Exchanges : pc[s][x] = "send" => ENABLED Send(s, x)

\* A publish attempt was made on a queue holding ChannelCapacity snapshots
\* and is over.
C29_PublishedOnFullQueue ==
    \E s \in Subs, x \in Exchanges :
        /\ Len(queue[s]) = ChannelCapacity
        /\ pc[s][x] = "panic_full"


\* C30: snapshots never go back in time for a subscriber.  Counting the
\* books each slot of a subscription has been given, the counts behind each
\* snapshot queued for the subscriber are, for the Binance slot and for the
\* Bitstamp slot, at least the counts behind the snapshot queued before it;
\* the snapshot a task queues is built from the book its own slot holds
\* then, and no slot holds an older book than a queued snapshot shows.
C30_SnapshotsNeverGoBack ==
    [][\A s \in Subs, x \in Exchanges :
         /\ \A y \in Exchanges : version'.sent[s][y] <= version'.slot[s][y]
         /\ (pc[s][x] = "send" /\ Len(queue'[s]) = Len(queue[s]) + 1)
            => /\ version'.sent[s] = version.merged[s][x]
               /\ \A y \in Exchanges : version.sent[s][y] <= version'.sent[s][y]
               /\ version'.sent[s][x] = version.slot[s][x]]_vars

\* A subscriber was sent snapshots built from a book of each exchange, and
\* one of its slots has since been given a book that no snapshot shows yet.
C30_NewerBooksQueued ==
    \E s \in Subs :
        /\ Len(Sent(s)) >= 2
        /\ \A y \in Exchanges : version.sent[s][y] >= 1
        /\ \E y \in Exchanges : version.sent[s][y] < version.slot[s][y]


\* The exchanges whose levels a book or snapshot holds.
TagsIn(book) == {level.exchange : level \in LevelSet(book.bids) \cup LevelSet(book.asks)}

\* C31: each BookSummary call starts with its own pair of empty slots.
\* While no task of subscription s has stored a book of exchange x, the
\* slot of x of that subscription is empty, and no merge its tasks hold and
\* no snapshot queued for or received by its subscriber has a level tagged
\* x, whatever the other subscriptions have stored.
C31_OwnEmptySlotsPerCall ==
    \A s \in Subs, x \in Exchanges :
        version.slot[s][x] = 0
        => /\ slot[s][x] = NewOrderBook
           /\ \A y \in Exchanges : x \notin TagsIn(merged_orderbook[s][y])
           /\ \A i \in DOMAIN queue[s] : x \notin TagsIn(queue[s][i])
           /\ \A i \in DOMAIN delivered[s] : x \notin TagsIn(delivered[s][i])

\* The first subscription has stored a Binance book; the second, which has
\* stored none, has received a snapshot, of Bitstamp levels only.
C31_LaterCallSeesOwnSlotsOnly ==
    /\ version.slot["s1"]["binance"] >= 1
    /\ Len(last["binance"].bids) > 0
    /\ version.slot["s2"]["binance"] = 0
    /\ Len(delivered["s2"]) >= 1
    /\ TagsIn(delivered["s2"][1]) = {"bitstamp"}


\* The levels of a Summary side are, position by position, those of a book
\* side: same exchange, price and amount.
SameLevels(summary_levels, levels) ==
    /\ Len(summary_levels) = Len(levels)
    /\ \A i \in DOMAIN levels :
          /\ summary_levels[i].exchange = levels[i].exchange
          /\ summary_levels[i].price = levels[i].price
          /\ summary_levels[i].amount = levels[i].amount

FaithfulCopy(summary, book) ==
    /\ summary.spread = book.spread
    /\ SameLevels(summary.bids, book.bids)
    /\ SameLevels(summary.asks, book.asks)

\* C32: the Summary queued for a subscriber is a faithful, independent copy
\* of the merged book.  What a task appends to the queue has the spread of
\* its merge and, position by position, its bids and asks; and whatever a
\* step does to the slots and to the books the tasks hold, what was queued
\* before it is still queued unchanged, unless the stream took the head of
\* the queue or was dropped, and what was received stays as received.
C32_SummaryIsFaithfulCopy ==
    [][\A s \in Subs :
         /\ \A x \in Exchanges :
               pc[s][x] = "send" /\ Len(queue'[s]) = Len(queue[s]) + 1
               => FaithfulCopy(queue'[s][Len(queue'[s])], merged_orderbook[s][x])
         /\ \/ /\ Len(queue'[s]) >= Len(queue[s])
               /\ SubSeq(queue'[s], 1, Len(queue[s])) = queue[s]
            \/ /\ queue[s] # <<>>
               /\ queue'[s] = Tail(queue[s])
               /\ delivered'[s] = Append(delivered[s], Head(queue[s]))
            \/ rx'[s] = "dropped" /\ rx[s] = "open"
         /\ Len(delivered'[s]) >= Len(delivered[s])
         /\ SubSeq(delivered'[s], 1, Len(delivered[s])) = delivered[s]]_vars

\* A snapshot with a spread other than 0 is still queued with a Binance bid
\* at a price that the Binance slot, overwritten since, no longer holds.
C32_QueuedSummaryOutlivesItsBook ==
    \E s \in Subs :
        /\ Len(queue[s]) >= 1
        /\ queue[s][1].spread # Fin(0)
        /\ version.slot[s]["binance"] >= 2
        /\ \E i \in DOMAIN queue[s][1].bids :
              /\ queue[s][1].bids[i].exchange = "binance"
              /\ \A j \in DOMAIN slot[s]["binance"].bids :
                    slot[s]["binance"].bids[j].price # queue[s][1].bids[i].price

====
